---- MODULE Spec2Model ----
(***************************************************************************)
(* Model of src/app.py: SafeDuckDuckGoSearch._run, the retry wrapper put   *)
(* around DuckDuckGoSearchRun._run.                                        *)
(*                                                                         *)
(* Strings are sequences of characters (one-character strings; a code      *)
(* point outside ASCII is written "U+XXXX").  Durations are counted in     *)
(* tenths of a second, so that base_wait = 1.5 s is the integer 15.        *)
(***************************************************************************)
EXTENDS Integers, Sequences, FiniteSets, TLC

VARIABLES pc, query, i, last_exc, e, text, wait, ret, trace, outcomes, ref,
          apc, prompt, messages, wiki_raw, arxiv_raw, web_raw, aggregated,
          calls, nprompts, escaped

\* the script around the wrapper: session history, the handler's locals
appvars == <<apc, prompt, messages, wiki_raw, arxiv_raw, web_raw, aggregated,
             calls, nprompts, escaped>>

vars == <<pc, query, i, last_exc, e, text, wait, ret, trace, outcomes, ref, appvars>>

(***************************************************************************)
(* Program constants (src/app.py:33-34).                                   *)
(***************************************************************************)
attempts == 4

base_wait == 15

(***************************************************************************)
(* Strings of the program.                                                 *)
(***************************************************************************)
UpperCase == <<"A", "B", "C", "D", "E", "F", "G", "H", "I", "J", "K", "L", "M", "N", "O", "P", "Q", "R", "S", "T", "U", "V", "W", "X", "Y", "Z">>

LowerCase == <<"a", "b", "c", "d", "e", "f", "g", "h", "i", "j", "k", "l", "m", "n", "o", "p", "q", "r", "s", "t", "u", "v", "w", "x", "y", "z">>

\* str.lower() on one character
LowerChar(c) ==
    IF \E k \in 1..Len(UpperCase) : UpperCase[k] = c
    THEN LowerCase[CHOOSE k \in 1..Len(UpperCase) : UpperCase[k] = c]
    ELSE c

\* str.lower()
Lower(s) == [k \in 1..Len(s) |-> LowerChar(s[k])]

\* Python's `sub in s`
Contains(s, sub) ==
    \E k \in 0..(Len(s) - Len(sub)) : SubSeq(s, k + 1, k + Len(sub)) = sub

ErrorPrefix == <<"U+26A0", "U+FE0F", " ", "D", "u", "c", "k", "D", "u", "c", "k", "G", "o", " ", "e", "r", "r", "o", "r", ":", " ">>

UnavailablePrefix == <<"U+274C", " ", "D", "u", "c", "k", "D", "u", "c", "k", "G", "o", " ", "u", "n", "a", "v", "a", "i", "l", "a", "b", "l", "e", " ", "a", "f", "t", "e", "r", " ", "r", "e", "t", "r", "i", "e", "s", ".", " ", "L", "a", "s", "t", " ", "e", "r", "r", "o", "r", ":", " ">>

NoneText == <<"N", "o", "n", "e">>

DigitChar == <<"0", "1", "2", "3", "4", "5", "6", "7", "8", "9">>

\* the decimal numeral of a natural number
RECURSIVE Decimal(_)
Decimal(n) ==
    IF n < 10 THEN <<DigitChar[n + 1]>>
    ELSE Decimal(n \div 10) \o <<DigitChar[(n % 10) + 1]>>

(***************************************************************************)
(* Strings of the script around the wrapper.                               *)
(***************************************************************************)
\* line 62
Greeting == <<"H", "i", " ", "U+2014", " ", "I", " ", "c", "a", "n", " ", "c", "h", "e", "c", "k", " ", "W", "i", "k", "i", "p", "e", "d", "i", "a", ",", " ", "a", "r", "X", "i", "v", ",", " ", "a", "n", "d", " ", "t", "h", "e", " ", "w", "e", "b", ".", " ", "A", "s", "k", " ", "m", "e", " ", "a", "n", "y", "t", "h", "i", "n", "g", ".">>

\* line 82
WikiFailedPrefix == <<"U+26A0", "U+FE0F", " ", "W", "i", "k", "i", "p", "e", "d", "i", "a", " ", "f", "a", "i", "l", "e", "d", ":", " ">>

\* line 88
ArxivFailedPrefix == <<"U+26A0", "U+FE0F", " ", "a", "r", "X", "i", "v", " ", "f", "a", "i", "l", "e", "d", ":", " ">>

\* line 94
WebFailedPrefix == <<"U+26A0", "U+FE0F", " ", "D", "u", "c", "k", "D", "u", "c", "k", "G", "o", " ", "f", "a", "i", "l", "e", "d", ":", " ">>

\* lines 98, 100, 102
FailedWord == <<"f", "a", "i", "l", "e", "d">>

\* line 99
WikiHeader == <<"W", "I", "K", "I", "P", "E", "D", "I", "A", " ", "R", "E", "S", "U", "L", "T", ":", "\n">>

\* line 101
ArxivHeader == <<"A", "R", "X", "I", "V", " ", "R", "E", "S", "U", "L", "T", ":", "\n">>

\* line 103
WebHeader == <<"W", "E", "B", " ", "R", "E", "S", "U", "L", "T", ":", "\n">>

\* line 106
NoResultsText == <<"N", "o", " ", "e", "x", "t", "e", "r", "n", "a", "l", " ", "r", "e", "s", "u", "l", "t", "s", " ", "a", "v", "a", "i", "l", "a", "b", "l", "e", " ", "(", "a", "l", "l", " ", "t", "o", "o", "l", "s", " ", "f", "a", "i", "l", "e", "d", " ", "o", "r", " ", "r", "e", "t", "u", "r", "n", "e", "d", " ", "n", "o", " ", "r", "e", "s", "u", "l", "t", "s", ")", ".">>

\* line 109
Separator == <<"\n", "\n", "-", "-", "-", "\n", "\n">>

\* line 128
LlmFailedPrefix == <<"U+26A0", "U+FE0F", " ", "L", "L", "M", " ", "s", "u", "m", "m", "a", "r", "i", "z", "a", "t", "i", "o", "n", " ", "f", "a", "i", "l", "e", "d", ":", " ">>

\* line 128
RawResultsHeader == <<"\n", "\n", "R", "a", "w", " ", "a", "g", "g", "r", "e", "g", "a", "t", "e", "d", " ", "r", "e", "s", "u", "l", "t", "s", ":", "\n">>

\* line 138
SafeguardPrefix == <<"E", "r", "r", "o", "r", ":", " ">>

\* the characters str.strip() removes
Whitespace == {" ", "\n", "\t", "\r"}

\* str.strip()
RECURSIVE Strip(_)
Strip(s) ==
    IF s = <<>> THEN s
    ELSE IF s[1] \in Whitespace THEN Strip(Tail(s))
    ELSE IF s[Len(s)] \in Whitespace THEN Strip(SubSeq(s, 1, Len(s) - 1))
    ELSE s

\* sep.join(parts)
RECURSIVE Join(_, _)
Join(parts, sep) ==
    IF parts = <<>> THEN <<>>
    ELSE IF Len(parts) = 1 THEN parts[1]
    ELSE parts[1] \o sep \o Join(Tail(parts), sep)

(***************************************************************************)
(* Exceptions: a class and the constructor's arguments.  "Exception"       *)
(* stands for Exception and its subclasses, "BaseException" for the        *)
(* classes outside Exception (KeyboardInterrupt, SystemExit).              *)
(***************************************************************************)
None == [cls |-> "None", args |-> <<>>]

Exc(cls, args) == [cls |-> cls, args |-> args]

\* str(e) of an exception built with zero or one argument
Str(exc) == IF Len(exc.args) = 0 THEN <<>> ELSE exc.args[1]

\* f"{last_exc}" where last_exc is Optional[Exception]
Format(exc) == IF exc = None THEN NoneText ELSE Str(exc)

(***************************************************************************)
(* Inputs: the queries of the caller and the outcomes of the wrapped       *)
(* lookup super()._run(query).                                             *)
(***************************************************************************)
Queries == {"q1", "q2"}

Payloads == { <<"P", "a", "r", "i", "s">>, <<>> }

RateLimitErrors ==
    { Exc("Exception", << <<"R", "a", "t", "e", "l", "i", "m", "i", "t">> >>),
      Exc("Exception", << <<"2", "0", "2">> >>),
      Exc("Exception", << <<"R", "a", "t", "e", " ", "L", "i", "m", "i", "t">> >>) }

OtherErrors ==
    { Exc("Exception", << <<"B", "a", "d", " ", "q", "u", "e", "r", "y">> >>),
      Exc("Exception", <<>>) }

Exits == { Exc("BaseException", <<>>) }

Raised == RateLimitErrors \cup OtherErrors \cup Exits

\* messages that hold a marker in some case and at some position
MarkedErrors ==
    { Exc("Exception", << <<"R", "A", "T", "E", "L", "I", "M", "I", "T">> >>),
      Exc("Exception", << <<"x", " ", "R", "a", "t", "e", "L", "i", "m", "i", "t", "!">> >>),
      Exc("Exception", << <<"H", "T", "T", "P", " ", "2", "0", "2">> >>),
      Exc("Exception", << <<"1", "2", "0", "2", "5">> >>),
      Exc("Exception", << <<"R", "a", "t", "e", " ", "L", "i", "m", "i", "t">> >>) }

\* messages that come close to a marker without holding one
UnmarkedErrors ==
    { Exc("Exception", << <<"r", "a", "t", "e", " ", " ", "l", "i", "m", "i", "t">> >>),
      Exc("Exception", << <<"r", "a", "t", "e", "-", "l", "i", "m", "i", "t">> >>),
      Exc("Exception", << <<"2", "0", " ", "2">> >>),
      Exc("Exception", << <<"R", "a", "t", "e", "l", "i", "m", "i">> >>),
      Exc("Exception", << <<"L", "i", "m", "i", "t", " ", "r", "a", "t", "e">> >>),
      Exc("Exception", <<>>) }

(***************************************************************************)
(* The pieces of _run.                                                     *)
(***************************************************************************)
RECURSIVE Pow2(_)
Pow2(n) == IF n = 0 THEN 1 ELSE 2 * Pow2(n - 1)

\* mutant: the marker "202" is left out
IsRateLimitNo202(t) ==
    \/ Contains(t, <<"r", "a", "t", "e", "l", "i", "m", "i", "t">>)
    \/ Contains(t, <<"r", "a", "t", "e", " ", "l", "i", "m", "i", "t">>)

\* the test of line 43 on text = str(e).lower()
IsRateLimit(t) ==
    \/ Contains(t, <<"r", "a", "t", "e", "l", "i", "m", "i", "t">>)
    \/ Contains(t, <<"2", "0", "2">>)
    \/ Contains(t, <<"r", "a", "t", "e", " ", "l", "i", "m", "i", "t">>)

\* mutant: only rate-limit errors are caught
CatchesRateLimitOnly(exc) == exc.cls = "Exception" /\ IsRateLimit(Lower(Str(exc)))

\* `except Exception as e` (line 39)
Catches(exc) == exc.cls = "Exception"

\* mutant: the backoff grows linearly
WaitLinear(n) == base_wait * (n + 1)

\* mutant: the exponent is one too large
WaitDoubled(n) == base_wait * Pow2(n + 1)

\* wait = base_wait * (2 ** i) (line 44)
Wait(n) == base_wait * Pow2(n)

\* mutant: the loop runs once more
InRangeInclusive(n) == n <= attempts

\* `for i in range(attempts)`: the loop body runs for index n
InRange(n) == n < attempts

\* where control goes when the loop is (re-)entered with index n
LoopHead(n) == IF InRange(n) THEN "try" ELSE "fallback"

Event(ev, arg) == [ev |-> ev, arg |-> arg]

Outcome(kind, payload, exc) == [kind |-> kind, payload |-> payload, exc |-> exc]

Returned(s) == [kind |-> "return", val |-> s, exc |-> None]

Propagated(exc) == [kind |-> "raise", val |-> <<>>, exc |-> exc]

NoRet == [kind |-> "none", val |-> <<>>, exc |-> None]

NoRef == [set |-> FALSE, outcomes |-> <<>>, ret |-> NoRet, trace |-> <<>>]

\* an entry of st.session_state["messages"]
Msg(role, content) == [role |-> role, content |-> content]

\* one call made by the prompt handler and how it ended
CallRec(name, kind, exc) == [name |-> name, kind |-> kind, exc |-> exc]

Init ==
    /\ pc = "idle"
    /\ query = "q1"
    /\ i = 0
    /\ last_exc = None
    /\ e = None
    /\ text = <<>>
    /\ wait = 0
    /\ ret = NoRet
    /\ trace = <<>>
    /\ outcomes = <<>>
    /\ ref = NoRef
    /\ apc = "ready"
    /\ prompt = <<>>
    /\ messages = <<Msg("assistant", Greeting)>>
    /\ wiki_raw = <<>>
    /\ arxiv_raw = <<>>
    /\ web_raw = <<>>
    /\ aggregated = <<>>
    /\ calls = <<>>
    /\ nprompts = 0
    /\ escaped = FALSE

\* mutant: the attempt index and the last error live on from call to call
EnterKeepsState(q) ==
    /\ pc \in {"idle", "done"}
    /\ query' = q
    /\ pc' = LoopHead(i)
    /\ e' = None
    /\ text' = <<>>
    /\ wait' = 0
    /\ ret' = NoRet
    /\ trace' = <<>>
    /\ outcomes' = <<>>
    /\ UNCHANGED <<i, last_exc>>

\* _run(query) is entered: lines 31-36
Enter(q) ==
    /\ pc \in {"idle", "done"}
    /\ query' = q
    /\ last_exc' = None
    /\ i' = 0
    /\ pc' = LoopHead(0)
    /\ e' = None
    /\ text' = <<>>
    /\ wait' = 0
    /\ ret' = NoRet
    /\ trace' = <<>>
    /\ outcomes' = <<>>

\* a call of the wrapper by a caller that keeps nothing of the earlier calls
Call(q) ==
    /\ Enter(q)
    /\ UNCHANGED <<ref, appvars>>

\* a call after which an observer keeps what the call before it did
CallRemember(q) ==
    /\ pc = "done"
    /\ Enter(q)
    /\ ref' = [set |-> TRUE, outcomes |-> outcomes, ret |-> ret, trace |-> trace]
    /\ UNCHANGED appvars

\* mutant: the payload is lowercased on the way out
LookupReturnsLowered(p) ==
    /\ pc = "try"
    /\ trace' = Append(trace, Event("lookup", i))
    /\ outcomes' = Append(outcomes, Outcome("ok", p, None))
    /\ ret' = Returned(Lower(p))
    /\ pc' = "done"
    /\ UNCHANGED <<query, i, last_exc, e, text, wait, ref, appvars>>

\* line 38: super()._run(query) returns p, which is returned
LookupReturns(p) ==
    /\ pc = "try"
    /\ trace' = Append(trace, Event("lookup", i))
    /\ outcomes' = Append(outcomes, Outcome("ok", p, None))
    /\ ret' = Returned(p)
    /\ pc' = "done"
    /\ UNCHANGED <<query, i, last_exc, e, text, wait, ref, appvars>>

\* lines 38-41: super()._run(query) raises x
LookupRaises(x) ==
    /\ pc = "try"
    /\ trace' = Append(trace, Event("lookup", i))
    /\ outcomes' = Append(outcomes, Outcome("raise", <<>>, x))
    /\ IF Catches(x)
       THEN /\ e' = x
            /\ last_exc' = x
            /\ text' = Lower(Str(x))
            /\ pc' = "except"
            /\ UNCHANGED ret
       ELSE /\ ret' = Propagated(x)
            /\ pc' = "done"
            /\ UNCHANGED <<e, last_exc, text>>
    /\ UNCHANGED <<query, i, wait, ref, appvars>>

\* lines 43-44: the rate-limit branch is taken
Backoff ==
    /\ pc = "except"
    /\ IsRateLimit(text)
    /\ wait' = Wait(i)
    /\ pc' = "warn"
    /\ UNCHANGED <<query, i, last_exc, e, text, ret, trace, outcomes, ref, appvars>>

\* line 45: st.warning(...)
Warn ==
    /\ pc = "warn"
    /\ trace' = Append(trace, Event("warning", wait))
    /\ pc' = "sleep"
    /\ UNCHANGED <<query, i, last_exc, e, text, wait, ret, outcomes, ref, appvars>>

\* lines 46-47: sleep(wait); continue
Sleep ==
    /\ pc = "sleep"
    /\ trace' = Append(trace, Event("sleep", wait))
    /\ i' = i + 1
    /\ pc' = LoopHead(i + 1)
    /\ e' = None
    /\ UNCHANGED <<query, last_exc, text, wait, ret, outcomes, ref, appvars>>

\* mutant: the lowercased text is embedded instead of the error
ReturnErrorLowered ==
    /\ pc = "except"
    /\ ~IsRateLimit(text)
    /\ ret' = Returned(ErrorPrefix \o text)
    /\ pc' = "done"
    /\ UNCHANGED <<query, i, last_exc, e, text, wait, trace, outcomes, ref, appvars>>

\* lines 48-50: any other error is returned as a message
ReturnError ==
    /\ pc = "except"
    /\ ~IsRateLimit(text)
    /\ ret' = Returned(ErrorPrefix \o Str(e))
    /\ pc' = "done"
    /\ UNCHANGED <<query, i, last_exc, e, text, wait, trace, outcomes, ref, appvars>>

\* mutant: the message counts the attempts and drops the text
FallbackCounts ==
    /\ pc = "fallback"
    /\ ret' = Returned(UnavailablePrefix \o Decimal(i))
    /\ pc' = "done"
    /\ UNCHANGED <<query, i, last_exc, e, text, wait, trace, outcomes, ref, appvars>>

\* mutant: the loop's end reuses the message of the other branch
FallbackAsError ==
    /\ pc = "fallback"
    /\ ret' = Returned(ErrorPrefix \o Format(last_exc))
    /\ pc' = "done"
    /\ UNCHANGED <<query, i, last_exc, e, text, wait, trace, outcomes, ref, appvars>>

\* lines 51-52: the loop is over
Fallback ==
    /\ pc = "fallback"
    /\ ret' = Returned(UnavailablePrefix \o Format(last_exc))
    /\ pc' = "done"
    /\ UNCHANGED <<query, i, last_exc, e, text, wait, trace, outcomes, ref, appvars>>

\* the steps of one invocation
Step ==
    \/ \E p \in Payloads : LookupReturns(p)
    \/ \E x \in Raised : LookupRaises(x)
    \/ Backoff
    \/ Warn
    \/ Sleep
    \/ ReturnError
    \/ Fallback

Next ==
    \/ \E q \in Queries : Call(q)
    \/ Step

Spec == Init /\ [][Next]_vars

\* the calling thread runs on, and every lookup returns or raises
FairSpec == Spec /\ WF_vars(Step)

\* the same program, watched by an observer who remembers an earlier call
CrossNext ==
    \/ \E q \in Queries : Call(q)
    \/ \E q \in Queries : CallRemember(q)
    \/ Step

CrossSpec == Init /\ [][CrossNext]_vars

\* the wrapper facing failing lookups whose messages probe the markers
ClassifyNext ==
    \/ \E q \in Queries : Call(q)
    \/ \E x \in MarkedErrors \cup UnmarkedErrors : LookupRaises(x)
    \/ Backoff
    \/ Warn
    \/ Sleep
    \/ ReturnError
    \/ Fallback

ClassifySpec == Init /\ [][ClassifyNext]_vars

(***************************************************************************)
(* The prompt handler of the script (lines 60-138).  Each run of the       *)
(* script that receives a prompt calls Wikipedia, arXiv, the wrapper and   *)
(* the LLM; the outcome of each call is an input.                          *)
(***************************************************************************)
MaxPrompts == 2

Prompts == { <<"q", "1">>, <<"q", "2">> }

WikiResults == { <<" ", "W", "i", "k", "i", "\n">>, <<>> }

ArxivResults == { <<"A", "r", "x", "i", "v">> }

LlmContents == { <<"S", "u", "m">> }

\* what wiki_tool.run, arxiv_tool.run and llm.invoke raise
ToolErrors == { Exc("Exception", << <<"D", "o", "w", "n">> >>) } \cup Exits

\* what the wrapped lookup raises in a run of the script
WebRaised ==
    { Exc("Exception", << <<"2", "0", "2">> >>),
      Exc("Exception", << <<"B", "a", "d", " ", "q", "u", "e", "r", "y">> >>) } \cup Exits

\* the `except Exception` clauses of lines 81, 87, 93 and 126
Handles(exc) == exc.cls = "Exception"

\* the `except Exception` clause of the top-level safeguard (line 134)
SafeguardHandles(exc) == exc.cls = "Exception"

\* the tests of lines 98, 100 and 102
Keeps(raw) == raw # <<>> /\ ~Contains(Lower(raw), FailedWord)

\* lines 96-109
Aggregate(w, a, web) ==
    LET parts == (IF Keeps(w) THEN << WikiHeader \o Strip(w) >> ELSE <<>>)
                 \o (IF Keeps(a) THEN << ArxivHeader \o Strip(a) >> ELSE <<>>)
                 \o (IF Keeps(web) THEN << WebHeader \o Strip(web) >> ELSE <<>>)
    IN  IF parts = <<>> THEN NoResultsText ELSE Join(parts, Separator)

\* line 128
LlmFallback(exc, agg) == LlmFailedPrefix \o Str(exc) \o RawResultsHeader \o agg

\* the handler's locals and the wrapper's frame before a run
FreshRun ==
    /\ wiki_raw' = <<>>
    /\ arxiv_raw' = <<>>
    /\ web_raw' = <<>>
    /\ aggregated' = <<>>
    /\ calls' = <<>>
    /\ pc' = "idle"
    /\ query' = "q1"
    /\ i' = 0
    /\ last_exc' = None
    /\ e' = None
    /\ text' = <<>>
    /\ wait' = 0
    /\ ret' = NoRet
    /\ trace' = <<>>
    /\ outcomes' = <<>>

\* an exception x that no inner handler took: lines 134-138, or out of the script
Outer(x) ==
    IF SafeguardHandles(x)
    THEN /\ messages' = Append(messages, Msg("assistant", SafeguardPrefix \o Str(x)))
         /\ apc' = "ready"
         /\ UNCHANGED escaped
    ELSE /\ escaped' = TRUE
         /\ apc' = "ready"
         /\ UNCHANGED messages

\* lines 69-73: a prompt arrives and is appended to the history
Submit(p) ==
    /\ apc = "ready"
    /\ nprompts < MaxPrompts
    /\ prompt' = p
    /\ messages' = Append(messages, Msg("user", p))
    /\ nprompts' = nprompts + 1
    /\ apc' = "wiki"
    /\ FreshRun
    /\ UNCHANGED <<escaped, ref>>

\* line 80: wiki_tool.run(prompt) returns r
WikiReturns(r) ==
    /\ apc = "wiki"
    /\ calls' = Append(calls, CallRec("wiki", "ok", None))
    /\ wiki_raw' = r
    /\ apc' = "arxiv"
    /\ UNCHANGED <<prompt, messages, arxiv_raw, web_raw, aggregated, nprompts, escaped>>
    /\ UNCHANGED <<pc, query, i, last_exc, e, text, wait, ret, trace, outcomes, ref>>

\* lines 80-82: wiki_tool.run(prompt) raises x
WikiRaises(x) ==
    /\ apc = "wiki"
    /\ calls' = Append(calls, CallRec("wiki", "raise", x))
    /\ IF Handles(x)
       THEN /\ wiki_raw' = WikiFailedPrefix \o Str(x)
            /\ apc' = "arxiv"
            /\ UNCHANGED <<messages, escaped>>
       ELSE /\ Outer(x)
            /\ UNCHANGED wiki_raw
    /\ UNCHANGED <<prompt, arxiv_raw, web_raw, aggregated, nprompts>>
    /\ UNCHANGED <<pc, query, i, last_exc, e, text, wait, ret, trace, outcomes, ref>>

\* line 86: arxiv_tool.run(prompt) returns r
ArxivReturns(r) ==
    /\ apc = "arxiv"
    /\ calls' = Append(calls, CallRec("arxiv", "ok", None))
    /\ arxiv_raw' = r
    /\ apc' = "web"
    /\ UNCHANGED <<prompt, messages, wiki_raw, web_raw, aggregated, nprompts, escaped>>
    /\ UNCHANGED <<pc, query, i, last_exc, e, text, wait, ret, trace, outcomes, ref>>

\* mutant: no handler around the arXiv call, the safeguard ends the run
ArxivRaisesAborts(x) ==
    /\ apc = "arxiv"
    /\ calls' = Append(calls, CallRec("arxiv", "raise", x))
    /\ Outer(x)
    /\ UNCHANGED <<prompt, wiki_raw, arxiv_raw, web_raw, aggregated, nprompts>>
    /\ UNCHANGED <<pc, query, i, last_exc, e, text, wait, ret, trace, outcomes, ref>>

\* lines 86-88: arxiv_tool.run(prompt) raises x
ArxivRaises(x) ==
    /\ apc = "arxiv"
    /\ calls' = Append(calls, CallRec("arxiv", "raise", x))
    /\ IF Handles(x)
       THEN /\ arxiv_raw' = ArxivFailedPrefix \o Str(x)
            /\ apc' = "web"
            /\ UNCHANGED <<messages, escaped>>
       ELSE /\ Outer(x)
            /\ UNCHANGED arxiv_raw
    /\ UNCHANGED <<prompt, wiki_raw, web_raw, aggregated, nprompts>>
    /\ UNCHANGED <<pc, query, i, last_exc, e, text, wait, ret, trace, outcomes, ref>>

\* line 92: search_tool.run(prompt) enters _run(prompt)
WebCall ==
    /\ apc = "web"
    /\ Enter(prompt)
    /\ calls' = Append(calls, CallRec("web", "call", None))
    /\ apc' = "in_web"
    /\ UNCHANGED <<prompt, messages, wiki_raw, arxiv_raw, web_raw, aggregated, nprompts, escaped>>
    /\ UNCHANGED ref

\* lines 92-109: _run is over; its result, or the message of what it raised,
\* is web_raw, and the three results are aggregated
WebReturn ==
    /\ apc = "in_web"
    /\ pc = "done"
    /\ IF ret.kind = "return"
       THEN /\ web_raw' = ret.val
            /\ aggregated' = Aggregate(wiki_raw, arxiv_raw, ret.val)
            /\ apc' = "llm"
            /\ UNCHANGED <<messages, escaped>>
       ELSE IF Handles(ret.exc)
       THEN /\ web_raw' = WebFailedPrefix \o Str(ret.exc)
            /\ aggregated' = Aggregate(wiki_raw, arxiv_raw, WebFailedPrefix \o Str(ret.exc))
            /\ apc' = "llm"
            /\ UNCHANGED <<messages, escaped>>
       ELSE /\ Outer(ret.exc)
            /\ UNCHANGED <<web_raw, aggregated>>
    /\ UNCHANGED <<prompt, wiki_raw, arxiv_raw, calls, nprompts>>
    /\ UNCHANGED <<pc, query, i, last_exc, e, text, wait, ret, trace, outcomes, ref>>

\* lines 125, 131: llm.invoke(summary_prompt).content is c, which is appended
LlmReturns(c) ==
    /\ apc = "llm"
    /\ calls' = Append(calls, CallRec("llm", "ok", None))
    /\ messages' = Append(messages, Msg("assistant", c))
    /\ apc' = "ready"
    /\ UNCHANGED <<prompt, wiki_raw, arxiv_raw, web_raw, aggregated, nprompts, escaped>>
    /\ UNCHANGED <<pc, query, i, last_exc, e, text, wait, ret, trace, outcomes, ref>>

\* mutant: a failed summarization appends nothing
LlmRaisesSilent(x) ==
    /\ apc = "llm"
    /\ calls' = Append(calls, CallRec("llm", "raise", x))
    /\ IF Handles(x)
       THEN /\ apc' = "ready"
            /\ UNCHANGED <<messages, escaped>>
       ELSE Outer(x)
    /\ UNCHANGED <<prompt, wiki_raw, arxiv_raw, web_raw, aggregated, nprompts>>
    /\ UNCHANGED <<pc, query, i, last_exc, e, text, wait, ret, trace, outcomes, ref>>

\* mutant: no handler around llm.invoke, the safeguard reports the error
LlmRaisesToSafeguard(x) ==
    /\ apc = "llm"
    /\ calls' = Append(calls, CallRec("llm", "raise", x))
    /\ Outer(x)
    /\ UNCHANGED <<prompt, wiki_raw, arxiv_raw, web_raw, aggregated, nprompts>>
    /\ UNCHANGED <<pc, query, i, last_exc, e, text, wait, ret, trace, outcomes, ref>>

\* lines 125-131: llm.invoke raises x; the fallback text is appended
LlmRaises(x) ==
    /\ apc = "llm"
    /\ calls' = Append(calls, CallRec("llm", "raise", x))
    /\ IF Handles(x)
       THEN /\ messages' = Append(messages, Msg("assistant", LlmFallback(x, aggregated)))
            /\ apc' = "ready"
            /\ UNCHANGED escaped
       ELSE Outer(x)
    /\ UNCHANGED <<prompt, wiki_raw, arxiv_raw, web_raw, aggregated, nprompts>>
    /\ UNCHANGED <<pc, query, i, last_exc, e, text, wait, ret, trace, outcomes, ref>>

AppNext ==
    \/ \E p \in Prompts : Submit(p)
    \/ \E r \in WikiResults : WikiReturns(r)
    \/ \E x \in ToolErrors : WikiRaises(x)
    \/ \E r \in ArxivResults : ArxivReturns(r)
    \/ \E x \in ToolErrors : ArxivRaises(x)
    \/ WebCall
    \/ \E p \in Payloads : LookupReturns(p)
    \/ \E x \in WebRaised : LookupRaises(x)
    \/ Backoff
    \/ Warn
    \/ Sleep
    \/ ReturnError
    \/ Fallback
    \/ WebReturn
    \/ \E c \in LlmContents : LlmReturns(c)
    \/ \E x \in ToolErrors : LlmRaises(x)

AppSpec == Init /\ [][AppNext]_vars

(***************************************************************************)
(* What one invocation did, read off its trace.                            *)
(***************************************************************************)
IsLookup(ev) == ev.ev = "lookup"

IsSleep(ev) == ev.ev = "sleep"

IsWarning(ev) == ev.ev = "warning"

Lookups(tr) == Len(SelectSeq(tr, IsLookup))

Warnings(tr) == Len(SelectSeq(tr, IsWarning))

\* the durations of the sleeps of tr, in order
Sleeps(tr) == [k \in 1..Len(SelectSeq(tr, IsSleep)) |-> SelectSeq(tr, IsSleep)[k].arg]

RECURSIVE Sum(_)
Sum(sq) == IF sq = <<>> THEN 0 ELSE sq[1] + Sum(Tail(sq))

\* the position in tr of the lookup of attempt n (0 when there is none)
LookupAt(tr, n) ==
    IF \E k \in 1..Len(tr) : tr[k] = Event("lookup", n)
    THEN CHOOSE k \in 1..Len(tr) : tr[k] = Event("lookup", n)
    ELSE 0

\* the sleeps between the lookup of attempt n and the lookup of attempt n + 1
SleepsBetween(tr, n) == Sleeps(SubSeq(tr, LookupAt(tr, n) + 1, LookupAt(tr, n + 1) - 1))

\* an event of kind ev at position k of tr is followed by a lookup
FollowedByLookup(tr, k) == \E m \in (k + 1)..Len(tr) : IsLookup(tr[m])

LastOutcome == outcomes[Len(outcomes)]

\* outcome o is an error of class Exception whose message is rate-limit marked
IsTransient(o) ==
    /\ o.kind = "raise"
    /\ o.exc.cls = "Exception"
    /\ IsRateLimit(Lower(Str(o.exc)))

\* outcome o is an error of class Exception whose message is not marked
IsOtherError(o) ==
    /\ o.kind = "raise"
    /\ o.exc.cls = "Exception"
    /\ ~IsRateLimit(Lower(Str(o.exc)))

\* the invocation is over and every attempt it made failed transiently
AllTransient ==
    /\ pc = "done"
    /\ Len(outcomes) > 0
    /\ \A k \in 1..Len(outcomes) : IsTransient(outcomes[k])

(***************************************************************************)
(* C1: whatever the lookup does on each attempt (returns, raises a         *)
(* rate-limit marked error, raises any other error of class Exception),    *)
(* the invocation ends by returning a string; an error of class Exception  *)
(* raised by the lookup never leaves _run.                                 *)
(***************************************************************************)
C1_NoErrorEscapes ==
    /\ ret.kind = "raise" => ret.exc.cls # "Exception"
    /\ (/\ pc = "done"
        /\ \A k \in 1..Len(outcomes) :
              outcomes[k].kind = "raise" => outcomes[k].exc.cls = "Exception")
       => /\ ret.kind = "return"
          /\ ret.exc = None

C1_Witness ==
    /\ pc = "done"
    /\ Len(outcomes) = 2
    /\ IsTransient(outcomes[1])
    /\ IsOtherError(outcomes[2])
    /\ ret.kind = "return"

(***************************************************************************)
(* C2: an invocation makes at most `attempts` lookups, one after the       *)
(* other (the lookup of attempt n is the n-th one and every lookup before  *)
(* the latest one failed), and every invocation comes to its end.          *)
(***************************************************************************)
C2_Sequential ==
    /\ Lookups(trace) <= attempts
    /\ Lookups(trace) = Len(outcomes)
    /\ \A n \in 0..(Lookups(trace) - 1) : SelectSeq(trace, IsLookup)[n + 1].arg = n
    /\ \A k \in 1..(Len(outcomes) - 1) :
          outcomes[k].kind = "raise" /\ outcomes[k].exc.cls = "Exception"

C2_BoundedTermination ==
    /\ []C2_Sequential
    /\ (pc \notin {"idle", "done"}) ~> (pc = "done")

C2_Witness ==
    /\ pc = "done"
    /\ Lookups(trace) = attempts
    /\ ret.kind = "return"

(***************************************************************************)
(* C3: when a lookup returns, the wrapper returns that payload as it is    *)
(* and that lookup is the last thing the invocation did: no lookup, sleep  *)
(* or warning after it; a success on the first attempt is one lookup and   *)
(* nothing else.                                                           *)
(***************************************************************************)
C3_SuccessReturnsPayload ==
    (pc = "done" /\ Len(outcomes) > 0 /\ LastOutcome.kind = "ok")
    => /\ ret = Returned(LastOutcome.payload)
       /\ Lookups(trace) = Len(outcomes)
       /\ trace[Len(trace)] = Event("lookup", Len(outcomes) - 1)
       /\ Len(outcomes) = 1 => trace = <<Event("lookup", 0)>>

C3_Witness ==
    /\ pc = "done"
    /\ Len(outcomes) = 3
    /\ LastOutcome.kind = "ok"
    /\ LastOutcome.payload # <<>>
    /\ ret.val = LastOutcome.payload

(***************************************************************************)
(* C4: when every attempt fails with a rate-limit marked message, there    *)
(* are exactly `attempts` lookups, the sleep between attempt n and attempt *)
(* n + 1 lasts base_wait * 2^n (n in 0..attempts-2), and the string        *)
(* returned is the unavailable message with the text of the last error.    *)
(***************************************************************************)
C4_AllTransientExhausts ==
    AllTransient
    => /\ Lookups(trace) = attempts
       /\ Len(outcomes) = attempts
       /\ \A n \in 0..(attempts - 2) :
             SleepsBetween(trace, n) = <<base_wait * Pow2(n)>>
       /\ ret = Returned(UnavailablePrefix \o Str(LastOutcome.exc))
       /\ Contains(ret.val, Str(LastOutcome.exc))

C4_Witness ==
    /\ AllTransient
    /\ Str(outcomes[1].exc) # Str(LastOutcome.exc)
    /\ Str(outcomes[Len(outcomes) - 1].exc) # Str(LastOutcome.exc)
    /\ ret.kind = "return"

(***************************************************************************)
(* C5: a sleep happens only when another lookup follows it, so an          *)
(* invocation whose attempts all failed transiently slept attempts - 1     *)
(* times.                                                                  *)
(***************************************************************************)
C5_NoSleepAfterLastAttempt ==
    pc = "done"
    => /\ \A k \in 1..Len(trace) : IsSleep(trace[k]) => FollowedByLookup(trace, k)
       /\ AllTransient => Len(Sleeps(trace)) = attempts - 1

(***************************************************************************)
(* C6: when an attempt fails with a message that is not rate-limit marked, *)
(* that lookup is the last thing the invocation did (no lookup, sleep or   *)
(* warning after it) and the string returned is the error message with     *)
(* the text of that error.                                                 *)
(***************************************************************************)
C6_OtherErrorStops ==
    (pc = "done" /\ Len(outcomes) > 0 /\ IsOtherError(LastOutcome))
    => /\ ret = Returned(ErrorPrefix \o Str(LastOutcome.exc))
       /\ Contains(ret.val, Str(LastOutcome.exc))
       /\ Lookups(trace) = Len(outcomes)
       /\ trace[Len(trace)] = Event("lookup", Len(outcomes) - 1)
       /\ Warnings(trace) = Len(outcomes) - 1
       /\ Len(Sleeps(trace)) = Len(outcomes) - 1

C6_Witness ==
    /\ pc = "done"
    /\ Len(outcomes) = 2
    /\ IsOtherError(LastOutcome)
    /\ Str(LastOutcome.exc) # <<>>
    /\ Lookups(trace) < attempts
    /\ ret.kind = "return"

(***************************************************************************)
(* C7 as stated: the string returned on exhaustion states the number of    *)
(* attempts made and includes the text of the last error.                  *)
(***************************************************************************)
C7_StatesAttemptCount ==
    AllTransient
    => /\ Contains(ret.val, Decimal(Lookups(trace)))
       /\ Contains(ret.val, Str(LastOutcome.exc))

(***************************************************************************)
(* C7 amended: the string returned on exhaustion is the fixed text         *)
(* "<cross mark> DuckDuckGo unavailable after retries. Last error: "       *)
(* followed by the text of the last error; the fixed text holds no digit,  *)
(* so the number of attempts is not stated.                                *)
(***************************************************************************)
C7_UnavailableWithLastError ==
    AllTransient
    => /\ SubSeq(ret.val, 1, Len(UnavailablePrefix)) = UnavailablePrefix
       /\ SubSeq(ret.val, Len(UnavailablePrefix) + 1, Len(ret.val)) = Str(last_exc)
       /\ last_exc = LastOutcome.exc
       /\ Contains(ret.val, <<"a", "f", "t", "e", "r", " ", "r", "e", "t", "r", "i", "e", "s">>)
       /\ \A k \in 1..Len(UnavailablePrefix) :
             \A d \in 1..Len(DigitChar) : ret.val[k] # DigitChar[d]

C7_Witness ==
    /\ AllTransient
    /\ Lookups(trace) = attempts
    /\ ret.kind = "return"
    /\ ~Contains(ret.val, Decimal(attempts))

(***************************************************************************)
(* C8: every warning is followed, in the same invocation, by another       *)
(* lookup, so an invocation that is over emitted as many warnings as it    *)
(* made retries (lookups minus one).                                       *)
(***************************************************************************)
C8_WarningOnlyBeforeRetry ==
    pc = "done"
    => /\ \A k \in 1..Len(trace) : IsWarning(trace[k]) => FollowedByLookup(trace, k)
       /\ Warnings(trace) = Lookups(trace) - 1

(***************************************************************************)
(* C9: the sleeps of one invocation add up to at most                      *)
(* base_wait * (2^attempts - 1), that is 15 times base_wait.               *)
(***************************************************************************)
C9_TotalBackoffBounded ==
    /\ Sum(Sleeps(trace)) <= base_wait * (Pow2(attempts) - 1)
    /\ Sum(Sleeps(trace)) <= 15 * base_wait

C9_Witness ==
    /\ pc = "done"
    /\ Len(Sleeps(trace)) > 0
    /\ Sum(Sleeps(trace)) = base_wait * (Pow2(attempts) - 1)

(***************************************************************************)
(* C10: an invocation starts with attempt index 0 and no remembered error, *)
(* and an invocation that met the same lookup outcomes as an earlier one   *)
(* (whatever that one and the ones in between did) gives the same result   *)
(* after the same lookups, warnings and sleeps.                            *)
(***************************************************************************)
C10_NoCrossCallState ==
    /\ (pc # "idle" /\ trace = <<>>) => (i = 0 /\ last_exc = None)
    /\ (pc = "done" /\ ref.set /\ ref.outcomes = outcomes)
       => /\ ref.ret = ret
          /\ Lookups(ref.trace) = Lookups(trace)
          /\ Sleeps(ref.trace) = Sleeps(trace)
          /\ ref.trace = trace

C10_Witness ==
    /\ AllTransient
    /\ ref.set
    /\ ref.outcomes = outcomes
    /\ Str(outcomes[1].exc) # Str(LastOutcome.exc)
    /\ Lookups(trace) = attempts
    /\ ret.kind = "return"

(***************************************************************************)
(* C11: a caught error takes the backoff branch exactly when its message   *)
(* holds "rate limit", "ratelimit" or "202" somewhere, letters compared    *)
(* without regard to case; every other caught error is returned at once as *)
(* the error message.                                                      *)
(***************************************************************************)
C11_Markers ==
    { <<"r", "a", "t", "e", " ", "l", "i", "m", "i", "t">>,
      <<"r", "a", "t", "e", "l", "i", "m", "i", "t">>,
      <<"2", "0", "2">> }

\* characters a and b are the same up to the case of a letter
SameLetter(a, b) ==
    \/ a = b
    \/ \E n \in 1..Len(UpperCase) : {a, b} = {UpperCase[n], LowerCase[n]}

\* s holds a marker at some position, whatever the case of its letters
MarkedIgnoringCase(s) ==
    \E m \in C11_Markers : \E k \in 0..(Len(s) - Len(m)) :
        \A j \in 1..Len(m) : SameLetter(s[k + j], m[j])

C11_TransientIffMarked ==
    [][pc = "except"
       => IF MarkedIgnoringCase(Str(e))
          THEN pc' = "warn" /\ ret' = NoRet
          ELSE pc' = "done" /\ ret' = Returned(ErrorPrefix \o Str(e))]_vars

C11_Witness ==
    /\ pc = "warn"
    /\ MarkedIgnoringCase(Str(e))
    /\ Str(e) # Lower(Str(e))
    /\ ~IsRateLimit(Str(e))
    /\ ~MarkedIgnoringCase(SubSeq(Str(e), 1, 9))

(***************************************************************************)
(* C12: after a failed last lookup, the unavailable message is returned    *)
(* only when `attempts` lookups were made and all failed transiently, the  *)
(* error message only when the last lookup failed otherwise, and the two   *)
(* messages start differently, so that neither passes for the other.       *)
(***************************************************************************)
HasPrefix(s, p) == Len(s) >= Len(p) /\ SubSeq(s, 1, Len(p)) = p

C12_OutcomesKeptApart ==
    /\ ErrorPrefix[1] # UnavailablePrefix[1]
    /\ (pc = "done" /\ ret.kind = "return" /\ Len(outcomes) > 0 /\ LastOutcome.kind = "raise")
       => /\ HasPrefix(ret.val, UnavailablePrefix)
             <=> (Lookups(trace) = attempts /\ AllTransient)
          /\ HasPrefix(ret.val, ErrorPrefix) <=> IsOtherError(LastOutcome)
          /\ HasPrefix(ret.val, UnavailablePrefix) # HasPrefix(ret.val, ErrorPrefix)

C12_Witness ==
    /\ pc = "done"
    /\ Lookups(trace) = attempts
    /\ IsOtherError(LastOutcome)
    /\ HasPrefix(ret.val, ErrorPrefix)
    /\ ~HasPrefix(ret.val, UnavailablePrefix)

(***************************************************************************)
(* What one run of the prompt handler did, read off its calls.             *)
(***************************************************************************)
\* the names of the calls made so far in this run, in order
CallNames == [k \in 1..Len(calls) |-> calls[k].name]

\* call k of this run raised an error of class Exception
CallFailed(k) == calls[k].kind = "raise" /\ calls[k].exc.cls = "Exception"

\* this run was ended by an exception outside class Exception
RunEscaped ==
    \/ \E k \in 1..Len(calls) : calls[k].kind = "raise" /\ calls[k].exc.cls # "Exception"
    \/ ret.kind = "raise"

\* the wrapper's invocation of this run ended in one of its failure strings
WebFailed == Len(outcomes) > 0 /\ LastOutcome.kind = "raise"

\* the three tools were called and their results aggregated
Aggregated == apc = "llm" \/ (apc = "ready" /\ Len(calls) = 4)

(***************************************************************************)
(* C13: the aggregate is the no-results message exactly when each of the   *)
(* three tools failed or returned an empty result; a tool that succeeded   *)
(* with a non-empty result has its section in the aggregate, a tool that   *)
(* failed (the web search that ended in the error or the unavailable       *)
(* message included) has none.                                             *)
(***************************************************************************)
C13_AggregateOnlySuccesses ==
    Aggregated
    => /\ aggregated = NoResultsText
          <=> /\ CallFailed(1) \/ wiki_raw = <<>>
              /\ CallFailed(2) \/ arxiv_raw = <<>>
              /\ WebFailed \/ web_raw = <<>>
       /\ (~CallFailed(1) /\ wiki_raw # <<>>)
          => Contains(aggregated, WikiHeader \o Strip(wiki_raw))
       /\ (~CallFailed(2) /\ arxiv_raw # <<>>)
          => Contains(aggregated, ArxivHeader \o Strip(arxiv_raw))
       /\ (~WebFailed /\ web_raw # <<>>)
          => Contains(aggregated, WebHeader \o Strip(web_raw))
       /\ CallFailed(1) => ~Contains(aggregated, WikiHeader)
       /\ CallFailed(2) => ~Contains(aggregated, ArxivHeader)
       /\ WebFailed => ~Contains(aggregated, WebHeader)

(***************************************************************************)
(* C14: as long as the calls return or raise errors of class Exception,    *)
(* the history is the greeting followed by user and assistant messages in  *)
(* turn: one user message and one assistant message for every prompt       *)
(* handled, and the user message alone while a prompt is being handled.    *)
(***************************************************************************)
C14_HistoryAlternates ==
    ~escaped
    => /\ messages[1] = Msg("assistant", Greeting)
       /\ \A k \in 2..Len(messages) :
             messages[k].role = IF k % 2 = 0 THEN "user" ELSE "assistant"
       /\ apc = "ready" => Len(messages) = 1 + 2 * nprompts
       /\ apc # "ready" => /\ Len(messages) = 2 * nprompts
                           /\ messages[Len(messages)] = Msg("user", prompt)

C14_Witness ==
    /\ ~escaped
    /\ apc = "ready"
    /\ nprompts = 2
    /\ Len(calls) = 4
    /\ CallFailed(1) /\ CallFailed(2) /\ WebFailed /\ CallFailed(4)
    /\ Len(messages) = 5
    /\ messages[3].role = "assistant"

(***************************************************************************)
(* C15: in a run not ended by an exception outside class Exception, the    *)
(* calls are Wikipedia, arXiv, the web search and the LLM, once each and   *)
(* in this order, all four by the end of the run; a tool that raised has   *)
(* its failure string as its result and the later calls are still made.    *)
(***************************************************************************)
C15_Order == <<"wiki", "arxiv", "web", "llm">>

C15_EachCallOnceInOrder ==
    ~RunEscaped
    => /\ Len(calls) <= 4
       /\ CallNames = SubSeq(C15_Order, 1, Len(calls))
       /\ apc = "wiki" => Len(calls) = 0
       /\ apc = "arxiv" => Len(calls) = 1
       /\ apc = "web" => Len(calls) = 2
       /\ apc \in {"in_web", "llm"} => Len(calls) = 3
       /\ (apc = "ready" /\ nprompts > 0) => Len(calls) = 4
       /\ (Len(calls) >= 1 /\ CallFailed(1))
          => wiki_raw = WikiFailedPrefix \o Str(calls[1].exc)
       /\ (Len(calls) >= 2 /\ CallFailed(2))
          => arxiv_raw = ArxivFailedPrefix \o Str(calls[2].exc)
       /\ (Aggregated /\ WebFailed) => web_raw = ret.val

C15_Witness ==
    /\ ~RunEscaped
    /\ apc = "ready"
    /\ CallNames = C15_Order
    /\ CallFailed(1) /\ CallFailed(2) /\ WebFailed
    /\ calls[4].kind = "ok"

(***************************************************************************)
(* C16: when llm.invoke raises an error of class Exception, the history    *)
(* grows by one assistant message, the text of line 128 with the error     *)
(* and the whole aggregate (not the "Error: ..." of the safeguard), and    *)
(* the entries that were there stay as they were.                          *)
(***************************************************************************)
C16_LlmFailureFallsBack ==
    [][(/\ apc = "llm"
        /\ apc' = "ready"
        /\ calls'[Len(calls')].kind = "raise"
        /\ calls'[Len(calls')].exc.cls = "Exception")
       => /\ Len(messages') = Len(messages) + 1
          /\ SubSeq(messages', 1, Len(messages)) = messages
          /\ messages'[Len(messages')].role = "assistant"
          /\ messages'[Len(messages')].content
                = LlmFailedPrefix \o Str(calls'[Len(calls')].exc)
                  \o RawResultsHeader \o aggregated
          /\ ~HasPrefix(messages'[Len(messages')].content, SafeguardPrefix)]_vars

C16_Witness ==
    /\ apc = "ready"
    /\ Len(calls) = 4
    /\ CallFailed(4)
    /\ Len(messages) = 5
    /\ HasPrefix(messages[5].content, LlmFailedPrefix)
    /\ Contains(messages[5].content, aggregated)
    /\ aggregated # NoResultsText

====
